---- MODULE Spec2Model ----
(***************************************************************************)
(* promptforge: the message codec (promptUtils.ts), the generate pipeline  *)
(* with its streaming assembler (sendRequest in app.tsx) and the part of   *)
(* the client state with its lifecycle, its persistence and its share      *)
(* links (useClientState.ts, shareAsUrl in app.tsx).                       *)
(*                                                                         *)
(* Text is a sequence of tokens.  A token is a literal piece of text that  *)
(* the program never looks inside: a role marker, one of the two halves of *)
(* the end-of-turn marker, a white-space character, or a piece of plain    *)
(* content.  The end-of-turn marker <|im_end|> is the two tokens "<|im_",  *)
(* "end|>" in a row, so that text in which the marker is nested inside     *)
(* itself can be written down.                                             *)
(***************************************************************************)
EXTENDS Integers, Sequences, FiniteSets, TLC

VARIABLES
    codec,      \* CodecSpec, UrlCodecSpec: the input of the conversions and their results
    state,      \* the ClientState held by useClientState (all queued updates applied)
    snap,       \* the ClientState of the last render: what the handlers' closures read
    editorRef,  \* editorRef.current: "null" or "editor"
    editor,     \* the editor widget's buffer
    calls,      \* the invocations of sendRequest that passed the guard
    requests,   \* the HTTP requests issued, in order
    alerts,     \* the notifications shown, in order
    localStorage, \* the entries llm_client_state and api_key of the browser's store
    location,   \* the `state` parameter of window.location.search
    clipboard,  \* the payloads of the share links written to the clipboard
    life        \* the hooks' bookkeeping: the dependencies of the last render,
                \* and how often each effect body has acted

\* what only the first commit, a render or shareAsUrl writes
pageVars == <<localStorage, location, clipboard, life>>

vars == <<codec, state, snap, editorRef, editor, calls, requests, alerts, pageVars>>

appVars == <<state, snap, editorRef, editor, calls, requests, alerts, pageVars>>

(***************************************************************************)
(* Bounds                                                                  *)
(***************************************************************************)
\* longest buffer handed to parseMessages in CodecSpec
MaxBufLen == 5
\* longest message list handed to messagesToPrompt in CodecSpec
MaxMsgs == 2
\* invocations of sendRequest that pass the guard, per run
MaxCalls == 2
\* chunks the transport delivers to one call in Spec
MaxChunks == 1
\* chunks the transport delivers to the call in StreamSpec
MaxStreamChunks == 3
\* share links made per page load
MaxShares == 1
\* longest prompt of the record handed to the URL encoding in UrlCodecSpec
MaxTextLen == 3
\* parameters that hold a value at the same time in RequestSpec
MaxSetParams == 1
\* editor widgets created per page load in TeardownSpec
MaxMounts == 2

(***************************************************************************)
(* Tokens                                                                  *)
(***************************************************************************)
NL == "\n"

IM1 == "<|im_"

IM2 == "end|>"

IM_END == <<IM1, IM2>>

Roles == {"system", "user", "assistant"}

\* `<|${msg.role}|>`
RoleTag(role) ==
    CASE role = "system" -> "<|system|>"
      [] role = "user" -> "<|user|>"
      [] role = "assistant" -> "<|assistant|>"

RoleMarkers == {RoleTag(r) : r \in Roles}

RoleOf(tag) == CHOOSE r \in Roles : RoleTag(r) = tag

IsWS(t) == t \in {NL, " "}

(***************************************************************************)
(* String primitives of the runtime, on token sequences                    *)
(***************************************************************************)
RECURSIVE TrimStart(_)
TrimStart(s) ==
    IF s # <<>> /\ IsWS(Head(s)) THEN TrimStart(Tail(s)) ELSE s

RECURSIVE TrimEnd(_)
TrimEnd(s) ==
    IF s # <<>> /\ IsWS(s[Len(s)]) THEN TrimEnd(SubSeq(s, 1, Len(s) - 1)) ELSE s

\* String.prototype.trim
Trim(s) == TrimEnd(TrimStart(s))

\* s.replace(/<\|im_end\|>/g, ""): one left-to-right pass that drops every
\* occurrence found in the ORIGINAL text; the result is not scanned again.
RECURSIVE StripImEnd(_)
StripImEnd(s) ==
    IF s = <<>> THEN <<>>
    ELSE IF Len(s) >= 2 /\ s[1] = IM1 /\ s[2] = IM2
         THEN StripImEnd(SubSeq(s, 3, Len(s)))
         ELSE <<Head(s)>> \o StripImEnd(Tail(s))

\* prompt.split(/<\|(system|user|assistant)\|>/): the text pieces with the
\* captured role names between them; a role name is the one-element sequence
\* <<role>>.
RECURSIVE SplitRoles(_, _)
SplitRoles(s, cur) ==
    IF s = <<>> THEN <<cur>>
    ELSE IF Head(s) \in RoleMarkers
         THEN <<cur, <<RoleOf(Head(s))>>>> \o SplitRoles(Tail(s), <<>>)
         ELSE SplitRoles(Tail(s), Append(cur, Head(s)))

\* true iff the marker occurs in s
HasImEnd(s) == \E i \in 1..(Len(s) - 1) : s[i] = IM1 /\ s[i + 1] = IM2

(***************************************************************************)
(* Message codec (promptUtils.ts)                                          *)
(***************************************************************************)
\* parseMessages without the trim of the content
RECURSIVE ParseSectionsNoTrim(_, _)
ParseSectionsNoTrim(sections, i) ==
    IF i >= Len(sections) THEN <<>>
    ELSE LET role == sections[i + 1][1]
             content == StripImEnd(sections[i + 2])
         IN  (IF content # <<>> THEN <<[role |-> role, content |-> content]>>
              ELSE <<>>)
             \o ParseSectionsNoTrim(sections, i + 2)

\* the body of the for loop of parseMessages, from index i (0-based, odd)
RECURSIVE ParseSections(_, _)
ParseSections(sections, i) ==
    IF i >= Len(sections) THEN <<>>
    ELSE LET role == sections[i + 1][1]
             content == Trim(StripImEnd(sections[i + 2]))
         IN  (IF content # <<>> THEN <<[role |-> role, content |-> content]>>
              ELSE <<>>)
             \o ParseSections(sections, i + 2)

\* parseMessages with the text before the first marker taken as a user turn
parseMessagesWithPreamble(prompt) ==
    LET sections == SplitRoles(prompt, <<>>)
        pre == Trim(StripImEnd(sections[1]))
    IN  (IF pre # <<>> THEN <<[role |-> "user", content |-> pre]>> ELSE <<>>)
        \o ParseSections(sections, 1)

parseMessages(prompt) == ParseSections(SplitRoles(prompt, <<>>), 1)

\* one element of the map of messagesToPrompt
FormatMessage(msg) ==
    <<RoleTag(msg.role), NL>> \o Trim(StripImEnd(msg.content)) \o <<NL>> \o IM_END

RECURSIVE messagesToPrompt(_)
messagesToPrompt(messages) ==
    IF messages = <<>> THEN <<>>
    ELSE IF Len(messages) = 1 THEN FormatMessage(messages[1])
    ELSE FormatMessage(Head(messages)) \o <<NL, NL>> \o messagesToPrompt(Tail(messages))

(***************************************************************************)
(* Client state (types.ts, useClientState.ts)                              *)
(***************************************************************************)
ParamNames ==
    {"maxTokens", "temperature", "topK", "topP", "frequencyPenalty", "presencePenalty"}

\* a number: not-a-number, or m * 10^e with e <= 0, where m does not end
\* in 0 unless e = 0
NaN == [nan |-> TRUE, m |-> 0, e |-> 0]

Number(n) == [nan |-> FALSE, m |-> n, e |-> 0]

\* a parameter is <<>> when null and <<n>> when it holds the number n
DEFAULT_PARAMS == [p \in ParamNames |-> <<>>]

\* JSON.stringify of a parameter: null for null and for not-a-number
JsonNumber(v) == IF v # <<>> /\ v[1].nan THEN <<>> ELSE v

(***************************************************************************)
(* Number fields (ParameterControls.tsx).  The text of a field is a        *)
(* sequence of one-character strings.                                      *)
(***************************************************************************)
Digits == <<"0", "1", "2", "3", "4", "5", "6", "7", "8", "9">>

IsDigit(ch) == \E i \in 1..10 : Digits[i] = ch

DigitValue(ch) == (CHOOSE i \in 1..10 : Digits[i] = ch) - 1

\* the number of digits text starts with from position i on
RECURSIVE DigitRun(_, _)
DigitRun(text, i) ==
    IF i <= Len(text) /\ IsDigit(text[i]) THEN 1 + DigitRun(text, i + 1) ELSE 0

\* the value of a sequence of digits
RECURSIVE DigitsValue(_)
DigitsValue(ds) ==
    IF ds = <<>> THEN 0
    ELSE DigitsValue(SubSeq(ds, 1, Len(ds) - 1)) * 10 + DigitValue(ds[Len(ds)])

\* m * 10^e as a number
RECURSIVE Scaled(_, _)
Scaled(m, e) ==
    IF m = 0 THEN Number(0)
    ELSE IF e > 0 THEN Scaled(m * 10, e - 1)
    ELSE IF e < 0 /\ m % 10 = 0 THEN Scaled(m \div 10, e + 1)
    ELSE [nan |-> FALSE, m |-> m, e |-> e]

\* the parts of the longest decimal literal text starts with: sign, digits,
\* fraction, exponent; len is its length, and 0 when there is none
DecimalLiteral(text) ==
    LET at(i) == IF i <= Len(text) THEN text[i] ELSE ""
        s == IF at(1) \in {"-", "+"} THEN 1 ELSE 0
        n == DigitRun(text, s + 1)
        f == IF at(s + n + 1) = "." THEN DigitRun(text, s + n + 2) ELSE 0
        dot == IF at(s + n + 1) = "." /\ (f > 0 \/ n > 0) THEN 1 ELSE 0
        k == s + n + dot + f
        es == IF at(k + 1) \in {"e", "E"} /\ at(k + 2) \in {"-", "+"} THEN 1 ELSE 0
        x == IF at(k + 1) \in {"e", "E"} THEN DigitRun(text, k + 2 + es) ELSE 0
    IN  IF n + f = 0
        THEN [len |-> 0, negative |-> FALSE, plus |-> FALSE, int |-> <<>>, dot |-> 0,
              frac |-> <<>>, exp |-> 0]
        ELSE [len |-> IF x > 0 THEN k + 1 + es + x ELSE k,
              negative |-> at(1) = "-",
              plus |-> at(1) = "+",
              int |-> SubSeq(text, s + 1, s + n),
              dot |-> dot,
              frac |-> SubSeq(text, s + n + 2, s + n + 1 + f),
              exp |-> IF x = 0 THEN 0
                      ELSE LET v == DigitsValue(SubSeq(text, k + 2 + es, k + 1 + es + x))
                           IN  IF at(k + 2) = "-" THEN 0 - v ELSE v]

\* the value of <input type="number">: the text when it is a valid
\* floating-point number, and the empty string otherwise
NumberInputValue(text) ==
    LET d == DecimalLiteral(text)
    IN  IF /\ d.len = Len(text) /\ d.len > 0
           /\ ~d.plus
           /\ (d.dot = 1 => d.frac # <<>>)
        THEN text
        ELSE <<>>

\* Number.parseInt: the digits after an optional sign, not-a-number when
\* there are none
parseInt(text) ==
    LET s == IF text # <<>> /\ text[1] \in {"-", "+"} THEN 1 ELSE 0
        n == DigitRun(text, s + 1)
        v == DigitsValue(SubSeq(text, s + 1, s + n))
    IN  IF n = 0 THEN NaN
        ELSE Number(IF text[1] = "-" THEN 0 - v ELSE v)

\* Number.parseFloat: the longest decimal literal at the start, not-a-number
\* when there is none
parseFloat(text) ==
    LET d == DecimalLiteral(text)
        m == DigitsValue(d.int \o d.frac)
    IN  IF d.len = 0 THEN NaN
        ELSE Scaled(IF d.negative THEN 0 - m ELSE m, d.exp - Len(d.frac))

\* the fields parsed with Number.parseInt; the others use Number.parseFloat
IntegerParams == {"maxTokens", "topK"}

\* value === "" ? null : Number.parseInt(value), or Number.parseFloat
ParamValue(p, value) ==
    IF value = <<>> THEN <<>>
    ELSE IF p \in IntegerParams THEN <<parseInt(value)>>
    ELSE <<parseFloat(value)>>

InFlight == {"fetching", "reading"}

Terminal == {"done", "failed"}

\* hasTokenizer without the trim
hasTokenizerNoTrim(st) == st.tokenizerUrl # <<>>

\* hasTokenizer: state.tokenizerUrl.trim() !== ""
hasTokenizer(st) == Trim(st.tokenizerUrl) # <<>>

(***************************************************************************)
(* Request builder (app.tsx)                                               *)
(***************************************************************************)
WireName(p) ==
    CASE p = "maxTokens" -> "max_tokens"
      [] p = "temperature" -> "temperature"
      [] p = "topK" -> "top_k"
      [] p = "topP" -> "top_p"
      [] p = "frequencyPenalty" -> "frequency_penalty"
      [] p = "presencePenalty" -> "presence_penalty"

\* `state.params.x ?? undefined`, for a parameter that is null or is not in
\* state.params: JSON.stringify leaves an undefined field out. A field of the
\* body is <<n>> for the number n and <<>> for null
ParamFields(st) ==
    LET present == {p \in ParamNames \cap DOMAIN st.params : st.params[p] # <<>>}
    IN  [w \in {WireName(p) : p \in present} |->
            JsonNumber(st.params[CHOOSE p \in present : WireName(p) = w])]

\* prompt.replace(/<\|im_end\|>$/, "")
StripTrailingImEnd(s) ==
    IF Len(s) >= 2 /\ s[Len(s) - 1] = IM1 /\ s[Len(s)] = IM2
    THEN SubSeq(s, 1, Len(s) - 2)
    ELSE s

generateCompletionRequest(st, prompt) ==
    [model |-> st.model, prompt |-> Trim(StripTrailingImEnd(prompt)), stream |-> TRUE]
        @@ ParamFields(st)

generateChatRequest(st, messages) ==
    [model |-> st.model, messages |-> messages, stream |-> TRUE] @@ ParamFields(st)

(***************************************************************************)
(* The response stream as sendRequest reads it (app.tsx)                   *)
(***************************************************************************)
DATA == "data: "

DONE == "[DONE]"

\* the text of a chat delta record up to its content, and after it
OC == "{\"choices\":[{\"delta\":{\"content\":\""

CC == "\"}}]}"

\* the text of a completion record up to its text, and after it
OT == "{\"choices\":[{\"text\":\""

CT == "\"}]}"

\* pieces of generated text
ContentToks == {"He", "llo", " "}

\* chunk.split("\n")
RECURSIVE SplitLines(_, _)
SplitLines(s, cur) ==
    IF s = <<>> THEN <<cur>>
    ELSE IF Head(s) = NL THEN <<cur>> \o SplitLines(Tail(s), <<>>)
         ELSE SplitLines(Tail(s), Append(cur, Head(s)))

\* JSON.parse(data), for the records a server sends: ok is FALSE where
\* JSON.parse throws
ParseJson(data) ==
    LET n == Len(data)
        inner == SubSeq(data, 2, n - 1)
        text == \A i \in 1..Len(inner) : inner[i] \in ContentToks
    IN  IF n >= 2 /\ data[1] = OC /\ data[n] = CC /\ text
            THEN [ok |-> TRUE, kind |-> "delta", content |-> inner]
        ELSE IF n >= 2 /\ data[1] = OT /\ data[n] = CT /\ text
            THEN [ok |-> TRUE, kind |-> "text", content |-> inner]
        ELSE IF data = <<"{}">>
            THEN [ok |-> TRUE, kind |-> "none", content |-> <<>>]
        ELSE [ok |-> FALSE, kind |-> "none", content |-> <<>>]

\* parsed.choices?.[0]?.text || ""  or  parsed.choices?.[0]?.delta?.content || ""
ExtractContent(parsed, tokenizer) ==
    IF tokenizer
    THEN (IF parsed.kind = "text" THEN parsed.content ELSE <<>>)
    ELSE (IF parsed.kind = "delta" THEN parsed.content ELSE <<>>)

\* the loop body without its try/catch: a payload that is not JSON throws
ProcessLineThrows(line, tokenizer) ==
    IF line # <<>> /\ Head(line) = DATA
    THEN LET data == Tail(line)
         IN  IF data = <<DONE>> THEN [content |-> <<>>, threw |-> FALSE]
             ELSE LET parsed == ParseJson(data)
                  IN  IF parsed.ok
                      THEN [content |-> ExtractContent(parsed, tokenizer), threw |-> FALSE]
                      ELSE [content |-> <<>>, threw |-> TRUE]
    ELSE [content |-> <<>>, threw |-> FALSE]

\* the body of `for (const line of lines)`: the content the line contributes,
\* and whether an exception leaves the loop
ProcessLine(line, tokenizer) ==
    IF line # <<>> /\ Head(line) = DATA
    THEN LET data == Tail(line)
         IN  IF data = <<DONE>> THEN [content |-> <<>>, threw |-> FALSE]
             ELSE LET parsed == ParseJson(data)
                  IN  IF parsed.ok
                      THEN [content |-> ExtractContent(parsed, tokenizer), threw |-> FALSE]
                      ELSE [content |-> <<>>, threw |-> FALSE]
    ELSE [content |-> <<>>, threw |-> FALSE]

\* the for loop over the lines of one chunk: what it appended before it ended
RECURSIVE ProcessLines(_, _)
ProcessLines(lines, tokenizer) ==
    IF lines = <<>> THEN [content |-> <<>>, threw |-> FALSE]
    ELSE LET first == ProcessLine(Head(lines), tokenizer)
         IN  IF first.threw THEN first
             ELSE LET rest == ProcessLines(Tail(lines), tokenizer)
                  IN  [content |-> first.content \o rest.content, threw |-> rest.threw]

ProcessChunk(chunk, tokenizer) == ProcessLines(SplitLines(chunk, <<>>), tokenizer)

(***************************************************************************)
(* Errors and notifications                                                *)
(***************************************************************************)
NetworkError == [isError |-> TRUE, message |-> <<"Failed to fetch">>]

ReadFailure == [isError |-> TRUE, message |-> <<"network error">>]

\* new Error(`HTTP ${response.status}: ${response.statusText}`)
HttpError(response) ==
    [isError |-> TRUE, message |-> <<"HTTP ", response.status, ": ", response.statusText>>]

NoBodyError == [isError |-> TRUE, message |-> <<"No response body">>]

\* the alert without the error's message
AlertTextUnknown(error) == <<"Request failed: ", "Unknown error">>

\* the text of the alert in the catch block
AlertText(error) ==
    <<"Request failed: ">> \o (IF error.isError THEN error.message ELSE <<"Unknown error">>)

Responses ==
    { [ok |-> TRUE, status |-> "200", statusText |-> "OK", body |-> TRUE],
      [ok |-> TRUE, status |-> "204", statusText |-> "No Content", body |-> FALSE],
      [ok |-> FALSE, status |-> "500", statusText |-> "Internal Server Error", body |-> TRUE] }

(***************************************************************************)
(* Serialized forms.  A text is a record that says what reading it back    *)
(* gives: JSON text of a value, or text that JSON.parse rejects; getItem   *)
(* and URLSearchParams.get return null for an entry that is not there.     *)
(***************************************************************************)
\* the value of an optional string that is not set
Undefined == "undefined"

\* `v || ...` takes the right-hand side
Falsy(v) == v \in {Undefined, "null", ""}

NoItem == [kind |-> "null"]

NotJson == [kind |-> "garbage"]

\* JSON.stringify of an object none of whose top-level fields is undefined
JsonStringify(value) ==
    [kind |-> "json",
     value |-> IF "params" \in DOMAIN value
               THEN [value EXCEPT
                        !.params = [p \in DOMAIN value.params |-> JsonNumber(value.params[p])]]
               ELSE value]

\* JSON.parse: ok is FALSE where it throws
JsonParse(text) ==
    IF text.kind = "json" THEN [ok |-> TRUE, value |-> text.value]
    ELSE [ok |-> FALSE, value |-> <<>>]

\* const { meta, ...rest } = state
WithoutMeta(st) == [k \in DOMAIN st \ {"meta"} |-> st[k]]

\* base64ToBase64Url(btoa(text)): the `state` parameter of a share link
EncodeState(text) == [kind |-> "encoded", text |-> text]

\* a `state` parameter that atob rejects
NotBase64 == [kind |-> "garbage"]

\* JSON.parse(atob(base64UrlToBase64(encoded))): ok is FALSE where atob or
\* JSON.parse throws
DecodeState(encoded) ==
    IF encoded.kind = "encoded" THEN JsonParse(encoded.text)
    ELSE [ok |-> FALSE, value |-> <<>>]

(***************************************************************************)
(* The share encoding, character by character (base64url.ts, shareAsUrl,   *)
(* the URL effect).  A text is a sequence of code units; a base64 text is  *)
(* a sequence of one-character strings.                                    *)
(***************************************************************************)
B64Chars ==
    <<"A", "B", "C", "D", "E", "F", "G", "H", "I", "J", "K", "L", "M", "N", "O", "P",
      "Q", "R", "S", "T", "U", "V", "W", "X", "Y", "Z", "a", "b", "c", "d", "e", "f",
      "g", "h", "i", "j", "k", "l", "m", "n", "o", "p", "q", "r", "s", "t", "u", "v",
      "w", "x", "y", "z", "0", "1", "2", "3", "4", "5", "6", "7", "8", "9", "+", "/">>

\* the character of a group of six bits, and the group of a character
B64Char(n) == B64Chars[n + 1]

B64Index(ch) == (CHOOSE i \in 1..64 : B64Chars[i] = ch) - 1

IsB64Char(ch) == \E i \in 1..64 : B64Chars[i] = ch

\* the base64 text of a sequence of bytes, padded
RECURSIVE B64Encode(_)
B64Encode(bytes) ==
    IF bytes = <<>> THEN <<>>
    ELSE IF Len(bytes) = 1
    THEN LET n == bytes[1] * 16
         IN  <<B64Char(n \div 64), B64Char(n % 64), "=", "=">>
    ELSE IF Len(bytes) = 2
    THEN LET n == (bytes[1] * 256 + bytes[2]) * 4
         IN  <<B64Char(n \div 4096), B64Char((n \div 64) % 64), B64Char(n % 64), "=">>
    ELSE LET n == bytes[1] * 65536 + bytes[2] * 256 + bytes[3]
         IN  <<B64Char(n \div 262144), B64Char((n \div 4096) % 64),
               B64Char((n \div 64) % 64), B64Char(n % 64)>>
             \o B64Encode(SubSeq(bytes, 4, Len(bytes)))

\* btoa: ok is FALSE where it throws InvalidCharacterError (a code unit
\* above 255)
btoa(text) ==
    IF \A i \in 1..Len(text) : text[i] <= 255
    THEN [ok |-> TRUE, value |-> B64Encode(text)]
    ELSE [ok |-> FALSE, value |-> <<>>]

\* the bytes of a sequence of base64 characters without padding; bits left
\* over are dropped
RECURSIVE B64Decode(_)
B64Decode(chars) ==
    IF Len(chars) < 2 THEN <<>>
    ELSE IF Len(chars) = 2
    THEN <<(B64Index(chars[1]) * 64 + B64Index(chars[2])) \div 16>>
    ELSE IF Len(chars) = 3
    THEN LET n == (B64Index(chars[1]) * 4096 + B64Index(chars[2]) * 64
                   + B64Index(chars[3])) \div 4
         IN  <<n \div 256, n % 256>>
    ELSE LET n == B64Index(chars[1]) * 262144 + B64Index(chars[2]) * 4096
                  + B64Index(chars[3]) * 64 + B64Index(chars[4])
         IN  <<n \div 65536, (n \div 256) % 256, n % 256>>
             \o B64Decode(SubSeq(chars, 5, Len(chars)))

\* atob: ok is FALSE where it throws
atob(base64) ==
    LET n == Len(base64)
        pad == IF n % 4 = 0 /\ n >= 2 /\ base64[n] = "="
               THEN (IF base64[n - 1] = "=" THEN 2 ELSE 1)
               ELSE 0
        chars == SubSeq(base64, 1, n - pad)
    IN  IF Len(chars) % 4 # 1 /\ \A i \in 1..Len(chars) : IsB64Char(chars[i])
        THEN [ok |-> TRUE, value |-> B64Decode(chars)]
        ELSE [ok |-> FALSE, value |-> <<>>]

\* s.replace(/=+$/, "")
RECURSIVE StripPadding(_)
StripPadding(s) ==
    IF s # <<>> /\ s[Len(s)] = "=" THEN StripPadding(SubSeq(s, 1, Len(s) - 1)) ELSE s

\* while (base64.length % 4 !== 0) base64 += "="
RECURSIVE PadToFour(_)
PadToFour(s) == IF Len(s) % 4 # 0 THEN PadToFour(Append(s, "=")) ELSE s

base64ToBase64Url(base64) ==
    StripPadding([i \in 1..Len(base64) |->
        IF base64[i] = "+" THEN "-" ELSE IF base64[i] = "/" THEN "_" ELSE base64[i]])

base64UrlToBase64(base64url) ==
    PadToFour([i \in 1..Len(base64url) |->
        IF base64url[i] = "-" THEN "+" ELSE IF base64url[i] = "_" THEN "/"
        ELSE base64url[i]])

\* the code units of {"prompt":" and of "}
JsonPrefix == <<123, 34, 112, 114, 111, 109, 112, 116, 34, 58, 34>>

JsonSuffix == <<34, 125>>

\* JSON.stringify of a record with the field prompt, for a prompt without
\* quotes, backslashes and control characters: the characters are written
\* as they are
StringifyPrompt(prompt) == JsonPrefix \o prompt \o JsonSuffix

\* JSON.parse of such a text
ParsePrompt(text) ==
    LET n == Len(text)
    IN  IF /\ n >= Len(JsonPrefix) + Len(JsonSuffix)
           /\ SubSeq(text, 1, Len(JsonPrefix)) = JsonPrefix
           /\ SubSeq(text, n - 1, n) = JsonSuffix
        THEN [ok |-> TRUE, value |-> SubSeq(text, Len(JsonPrefix) + 1, n - 2)]
        ELSE [ok |-> FALSE, value |-> <<>>]

\* the code units of a prompt: > ? a, e with acute accent, and a Hangul
\* syllable
PromptChars == {62, 63, 97, 233, 54620}

UrlCodecIdle ==
    [stage |-> "input", prompt |-> <<>>, base64 |-> <<>>, encoded |-> <<>>,
     decoded |-> <<>>]

\* shareAsUrl: base64ToBase64Url(btoa(JSON.stringify(stateToShare)))
UrlEncode ==
    /\ codec.stage = "input"
    /\ LET b == btoa(StringifyPrompt(codec.prompt))
       IN  codec' = IF b.ok
                    THEN [codec EXCEPT !.stage = "encoded", !.base64 = b.value,
                                       !.encoded = base64ToBase64Url(b.value)]
                    ELSE [codec EXCEPT !.stage = "threw"]
    /\ UNCHANGED appVars

\* the URL effect: JSON.parse(atob(base64UrlToBase64(encoded)))
UrlDecode ==
    /\ codec.stage = "encoded"
    /\ LET t == atob(base64UrlToBase64(codec.encoded))
           parsed == ParsePrompt(t.value)
       IN  codec' = IF t.ok /\ parsed.ok
                    THEN [codec EXCEPT !.stage = "decoded", !.decoded = parsed.value]
                    ELSE [codec EXCEPT !.stage = "failed"]
    /\ UNCHANGED appVars

(***************************************************************************)
(* useClientState: the initial state and the three effects                 *)
(***************************************************************************)
DEFAULT_STATE ==
    [apiBaseUrl |-> "https://openrouter.ai/api/v1",
     model |-> "google/gemini-2.5-flash-preview-05-20",
     params |-> DEFAULT_PARAMS,
     prompt |-> <<>>,
     meta |-> [isLoading |-> FALSE, initialization |-> "pending", apiKey |-> Undefined],
     tokenizerUrl |-> <<>>]

\* the initializer of useState
InitialState(store) ==
    LET saved == store.llm_client_state
        apiKey == store.api_key
        parsed == JsonParse(saved)
    IN  IF saved.kind # "null" /\ parsed.ok
        THEN ("meta" :> [initialization |-> "pending", isLoading |-> FALSE,
                         apiKey |-> IF Falsy(apiKey) THEN Undefined ELSE apiKey])
                 @@ parsed.value
        ELSE DEFAULT_STATE

\* the bookkeeping before the first commit
NewLife ==
    [committed |-> FALSE, depInit |-> "none", depEditor |-> 0, mounts |-> 0,
     decodes |-> 0, pulls |-> 0, populated |-> 0, shares |-> 0]

\* editorRef.current as a dependency: 0 for null, else the number of the widget
DepEditor == IF editorRef = "editor" THEN life.mounts ELSE 0

\* the URL effect with the parameters of the URL merged into the ones held
UrlEffectMergesParams(R, st, lf, first) ==
    IF (first \/ R.meta.initialization # lf.depInit) /\ R.meta.initialization = "pending"
    THEN IF location.kind # "null"
         THEN LET decoded == DecodeState(location)
                  merged == IF decoded.ok /\ "params" \in DOMAIN decoded.value
                            THEN ("params" :> (decoded.value.params @@ st.params))
                                     @@ decoded.value
                            ELSE decoded.value
              IN  IF decoded.ok
                  THEN [state |-> [(merged @@ st) EXCEPT
                                       !.meta = [st.meta EXCEPT !.initialization = "pulled"]],
                        life |-> [lf EXCEPT !.decodes = @ + 1, !.pulls = @ + 1]]
                  ELSE [state |-> st, life |-> [lf EXCEPT !.decodes = @ + 1]]
         ELSE [state |-> [st EXCEPT !.meta.initialization = "pulled"],
               life |-> [lf EXCEPT !.pulls = @ + 1]]
    ELSE [state |-> st, life |-> lf]

\* the URL effect with the meta record of the URL taken over
UrlEffectTakesMeta(R, st, lf, first) ==
    IF (first \/ R.meta.initialization # lf.depInit) /\ R.meta.initialization = "pending"
    THEN IF location.kind # "null"
         THEN LET decoded == DecodeState(location)
              IN  IF decoded.ok
                  THEN [state |-> [(decoded.value @@ st) EXCEPT
                                       !.meta.initialization = "pulled"],
                        life |-> [lf EXCEPT !.decodes = @ + 1, !.pulls = @ + 1]]
                  ELSE [state |-> st, life |-> [lf EXCEPT !.decodes = @ + 1]]
         ELSE [state |-> [st EXCEPT !.meta.initialization = "pulled"],
               life |-> [lf EXCEPT !.pulls = @ + 1]]
    ELSE [state |-> st, life |-> lf]

\* the URL effect without its test of the lifecycle: it acts on every render
UrlEffectEveryRender(R, st, lf, first) ==
    IF location.kind # "null"
    THEN LET decoded == DecodeState(location)
         IN  IF decoded.ok
             THEN [state |-> [(decoded.value @@ st) EXCEPT
                                  !.meta = [st.meta EXCEPT !.initialization = "pulled"]],
                   life |-> [lf EXCEPT !.decodes = @ + 1, !.pulls = @ + 1]]
             ELSE [state |-> st, life |-> [lf EXCEPT !.decodes = @ + 1]]
    ELSE [state |-> [st EXCEPT !.meta.initialization = "pulled"],
          life |-> [lf EXCEPT !.pulls = @ + 1]]

\* the URL effect of a render of state R, applied to the queued state st:
\* it runs on the first commit and when R.meta.initialization has changed
UrlEffect(R, st, lf, first) ==
    IF (first \/ R.meta.initialization # lf.depInit) /\ R.meta.initialization = "pending"
    THEN IF location.kind # "null"
         THEN LET decoded == DecodeState(location)
              IN  IF decoded.ok
                  THEN [state |-> [(decoded.value @@ st) EXCEPT
                                       !.meta = [st.meta EXCEPT !.initialization = "pulled"]],
                        life |-> [lf EXCEPT !.decodes = @ + 1, !.pulls = @ + 1]]
                  ELSE [state |-> st, life |-> [lf EXCEPT !.decodes = @ + 1]]
         ELSE [state |-> [st EXCEPT !.meta.initialization = "pulled"],
               life |-> [lf EXCEPT !.pulls = @ + 1]]
    ELSE [state |-> st, life |-> lf]

\* the editor initialization effect without its dependency list: it runs
\* after every render
InitEffectEveryRender(R, st, ed, lf, first, ref, dep) ==
    IF ref = "editor" /\ R.meta.initialization = "pulled"
    THEN [state |-> ("initialization" :> "completed") @@ [st EXCEPT !.prompt = R.prompt],
          editor |-> R.prompt, wrote |-> TRUE,
          life |-> [lf EXCEPT !.populated = @ + 1]]
    ELSE IF ref = "null" /\ R.meta.initialization = "completed"
    THEN [state |-> ("initialization" :> "pulled") @@ st,
          editor |-> ed, wrote |-> FALSE, life |-> lf]
    ELSE [state |-> st, editor |-> ed, wrote |-> FALSE, life |-> lf]

\* the editor initialization effect of a render of state R: it runs on the
\* first commit and when editorRef.current (dep, as the render read it) or
\* R.meta.initialization has changed; ref is editorRef.current as the effect
\* reads it.  setValue makes the editor report its content, which
\* handlePromptChange stores in state.prompt.
InitEffect(R, st, ed, lf, first, ref, dep) ==
    IF first \/ dep # lf.depEditor \/ R.meta.initialization # lf.depInit
    THEN IF ref = "editor" /\ R.meta.initialization = "pulled"
         THEN [state |-> ("initialization" :> "completed") @@ [st EXCEPT !.prompt = R.prompt],
               editor |-> R.prompt, wrote |-> TRUE,
               life |-> [lf EXCEPT !.populated = @ + 1]]
         ELSE IF ref = "null" /\ R.meta.initialization = "completed"
         THEN [state |-> ("initialization" :> "pulled") @@ st,
               editor |-> ed, wrote |-> FALSE, life |-> lf]
         ELSE [state |-> st, editor |-> ed, wrote |-> FALSE, life |-> lf]
    ELSE [state |-> st, editor |-> ed, wrote |-> FALSE, life |-> lf]

\* the persistence effect with the prompt left out of the main entry
PersistNoPrompt(R) ==
    [llm_client_state |-> JsonStringify([k \in DOMAIN R \ {"meta", "prompt"} |-> R[k]]),
     api_key |-> IF Falsy(R.meta.apiKey) THEN "" ELSE R.meta.apiKey]

\* the persistence effect with meta left in the main entry
PersistAll(R) ==
    [llm_client_state |-> JsonStringify(R),
     api_key |-> IF Falsy(R.meta.apiKey) THEN "" ELSE R.meta.apiKey]

\* the persistence effect of a render of state R
Persist(R) ==
    [llm_client_state |-> JsonStringify(WithoutMeta(R)),
     api_key |-> IF Falsy(R.meta.apiKey) THEN "" ELSE R.meta.apiKey]

(***************************************************************************)
(* CodecSpec: the codec applied to bounded inputs.  A run takes a buffer   *)
(* through parseMessages, messagesToPrompt and parseMessages again, or a   *)
(* message list through messagesToPrompt and parseMessages.                *)
(***************************************************************************)
CodecAlphabet == {"<|user|>", "<|assistant|>", NL, "a", IM1, IM2}

SeqsUpTo(S, n) == UNION {[1..k -> S] : k \in 0..n}

Buffers == SeqsUpTo(CodecAlphabet, MaxBufLen)

\* a system turn followed by an empty user turn
EmptyTurnBuffer ==
    <<"<|system|>", NL, "Hi", NL, IM1, IM2, NL, NL, "<|user|>", NL, NL, IM1, IM2>>

\* message contents that are non-empty after trimming: plain ones, one with
\* a lone marker half, and ones that are not trimmed or that contain a role
\* marker, the end-of-turn marker or the marker nested in itself
ContentPool ==
    { <<"a">>, <<"a", NL, "b">>, <<IM1, "a">>,
      <<NL, "a">>, <<"a", "<|user|>", "b">>, <<"a", IM1, IM2>>,
      <<IM1, IM1, IM2, IM2>> }

Messages == [role : Roles, content : ContentPool]

MessageLists == SeqsUpTo(Messages, MaxMsgs)

CodecIdle ==
    [stage |-> "idle", kind |-> "none", buf |-> <<>>, msgs |-> <<>>,
     parsed |-> <<>>, text |-> <<>>, reparsed |-> <<>>]

CodecParse ==
    /\ codec.stage = "input" /\ codec.kind = "buf"
    /\ codec' = [codec EXCEPT !.stage = "parsed", !.parsed = parseMessages(codec.buf)]
    /\ UNCHANGED appVars

CodecFormat ==
    /\ \/ /\ codec.stage = "parsed" /\ codec.kind = "buf"
          /\ codec' = [codec EXCEPT !.stage = "formatted",
                                     !.text = messagesToPrompt(codec.parsed)]
       \/ /\ codec.stage = "input" /\ codec.kind = "msgs"
          /\ codec' = [codec EXCEPT !.stage = "formatted",
                                     !.text = messagesToPrompt(codec.msgs)]
    /\ UNCHANGED appVars

CodecReparse ==
    /\ codec.stage = "formatted"
    /\ codec' = [codec EXCEPT !.stage = "reparsed", !.reparsed = parseMessages(codec.text)]
    /\ UNCHANGED appVars

(***************************************************************************)
(* The application after page load: the state was read from the store,     *)
(* the URL effect has run (meta.initialization = "pulled"), the editor is  *)
(* mounted and the initialization effect has populated it from             *)
(* state.prompt and has set the top-level field `initialization`.          *)
(***************************************************************************)
CallIds == 1..MaxCalls

\* a prompt as the templates leave it
TemplatePrompt == <<"<|user|>", NL, "hi", NL, IM1, IM2, NL>>

\* a prompt with text before the first marker, an empty turn and an open turn
DraftPrompt == <<"draft", "<|system|>", NL, NL, IM1, IM2, NL, "<|user|>", NL, "hi">>

InitialPrompts == {TemplatePrompt, DraftPrompt}

TokenizerUrls == { <<>>, <<"https://tok">> }

LoadedState(prompt, tokenizerUrl) ==
    [apiBaseUrl |-> "https://openrouter.ai/api/v1",
     model |-> "google/gemini-2.5-flash-preview-05-20",
     params |-> DEFAULT_PARAMS,
     prompt |-> prompt,
     tokenizerUrl |-> tokenizerUrl,
     initialization |-> "completed",
     meta |-> [isLoading |-> FALSE, initialization |-> "pulled", apiKey |-> "sk-key"]]

\* the bookkeeping after page load: one widget, one pull, one population
LoadedLife ==
    [NewLife EXCEPT !.committed = TRUE, !.depInit = "pulled", !.depEditor = 1,
                    !.mounts = 1, !.pulls = 1, !.populated = 1]

\* a slot for an invocation of sendRequest that has not happened yet.
\* st is the `state` of the closure the invocation runs in; buf0 (the buffer
\* when it was invoked), wire (the chunks it read), foreign (someone else
\* wrote the buffer meanwhile) and cause record the run for the properties.
IdleCall ==
    [pc |-> "idle", st |-> <<>>, assistantResponse |-> <<>>, wire |-> <<>>,
     buf0 |-> <<>>, foreign |-> FALSE, cause |-> "none"]

InitWith(prompts, urls) ==
    /\ codec = CodecIdle
    /\ \E p \in prompts, u \in urls : state = LoadedState(p, u)
    /\ snap = state
    /\ editorRef = "editor"
    /\ editor = state.prompt
    /\ calls = [c \in CallIds |-> IdleCall]
    /\ requests = <<>>
    /\ alerts = <<>>
    /\ localStorage = Persist(state)
    /\ location = NoItem
    /\ clipboard = <<>>
    /\ life = LoadedLife

Init == InitWith(InitialPrompts, TokenizerUrls)

\* the other calls in flight see the buffer written by someone else
MarkForeign(cs, writer, writes) ==
    [d \in CallIds |->
        IF d # writer /\ writes /\ cs[d].pc \in InFlight
        THEN [cs[d] EXCEPT !.foreign = TRUE]
        ELSE cs[d]]

\* catch (error) { alert(...) } finally { isLoading: false }, for call c
Catch(c, error, cause) ==
    /\ alerts' = Append(alerts, [call |-> c, text |-> AlertText(error)])
    /\ state' = [state EXCEPT !.meta.isLoading = FALSE]
    /\ calls' = [calls EXCEPT ![c].pc = "failed", ![c].cause = cause]
    /\ UNCHANGED editor

\* sendRequest from its first statement up to the call of fetch, for the
\* invocation that takes slot c. setValue makes the editor report its new
\* content, which handlePromptChange stores in state.prompt.
Dispatch(c) ==
    LET currentPrompt == IF editorRef = "editor" /\ editor # <<>> THEN editor ELSE snap.prompt
        tokenizer == hasTokenizer(snap)
        messages == parseMessages(currentPrompt)
        writes == ~tokenizer /\ editorRef = "editor"
        newValue == IF writes
                    THEN messagesToPrompt(messages) \o <<NL, NL, "<|assistant|>", NL>>
                    ELSE editor
        endpoint == IF tokenizer THEN <<snap.apiBaseUrl, "/completions">>
                    ELSE <<snap.apiBaseUrl, "/chat/completions">>
        body == IF tokenizer THEN generateCompletionRequest(snap, currentPrompt)
                ELSE generateChatRequest(snap, messages)
    IN  /\ editor' = newValue
        /\ state' = [state EXCEPT !.meta.isLoading = TRUE,
                                  !.prompt = IF writes THEN newValue ELSE @]
        /\ requests' = Append(requests,
               [call |-> c, method |-> "POST", endpoint |-> endpoint,
                authorization |->
                    <<"Bearer ", IF Falsy(snap.meta.apiKey) THEN "" ELSE snap.meta.apiKey>>,
                body |-> body])
        /\ calls' = [MarkForeign(calls, c, writes) EXCEPT
               ![c] = [IdleCall EXCEPT !.pc = "fetching", !.st = snap, !.buf0 = editor]]

\* an invocation of sendRequest: by the Generate button, by Ctrl/Cmd+Enter on
\* the window or by the editor's promptEditorSubmit event. The guard reads
\* the state of the render the handler was created in.
sendRequest ==
    /\ IF snap.meta.isLoading
       THEN UNCHANGED <<state, editor, calls, requests>>
       ELSE /\ \E c \in CallIds : calls[c].pc = "idle"
            /\ Dispatch(CHOOSE c \in CallIds :
                   calls[c].pc = "idle" /\ \A d \in CallIds : calls[d].pc = "idle" => c <= d)
    /\ UNCHANGED <<codec, pageVars, snap, editorRef, alerts>>

\* fetch rejects
FetchReject(c) ==
    /\ calls[c].pc = "fetching"
    /\ Catch(c, NetworkError, "network")
    /\ UNCHANGED <<codec, pageVars, snap, editorRef, requests>>

\* fetch resolves with a response
FetchResolve(c, response) ==
    /\ calls[c].pc = "fetching"
    /\ IF ~response.ok THEN Catch(c, HttpError(response), "http")
       ELSE IF ~response.body THEN Catch(c, NoBodyError, "body")
       ELSE /\ calls' = [calls EXCEPT ![c].pc = "reading"]
            /\ UNCHANGED <<state, editor, alerts>>
    /\ UNCHANGED <<codec, pageVars, snap, editorRef, requests>>

\* a read loop that takes the variant from the state as it is now
ReadChunkLiveVariant(c, chunk, max) ==
    /\ calls[c].pc = "reading"
    /\ Len(calls[c].wire) < max
    /\ LET r == ProcessChunk(chunk, hasTokenizer(state))
           writes == r.content # <<>> /\ editorRef = "editor"
           newValue == IF writes THEN editor \o r.content ELSE editor
       IN  /\ editor' = newValue
           /\ state' = [state EXCEPT !.prompt = IF writes THEN newValue ELSE @]
           /\ calls' = [MarkForeign(calls, c, writes) EXCEPT
                  ![c].assistantResponse = @ \o r.content,
                  ![c].wire = Append(@, chunk)]
    /\ UNCHANGED <<codec, pageVars, snap, editorRef, requests, alerts>>

\* a read loop that sets the buffer to the content of the chunk
ReadChunkReplaces(c, chunk, max) ==
    /\ calls[c].pc = "reading"
    /\ Len(calls[c].wire) < max
    /\ LET r == ProcessChunk(chunk, hasTokenizer(calls[c].st))
           writes == r.content # <<>> /\ editorRef = "editor"
           newValue == IF writes THEN r.content ELSE editor
       IN  /\ editor' = newValue
           /\ state' = [state EXCEPT !.prompt = IF writes THEN newValue ELSE @]
           /\ calls' = [MarkForeign(calls, c, writes) EXCEPT
                  ![c].assistantResponse = @ \o r.content,
                  ![c].wire = Append(@, chunk)]
    /\ UNCHANGED <<codec, pageVars, snap, editorRef, requests, alerts>>

\* reader.read() resolves with a chunk: one turn of the while loop
ReadChunk(c, chunk, max) ==
    /\ calls[c].pc = "reading"
    /\ Len(calls[c].wire) < max
    /\ LET r == ProcessChunk(chunk, hasTokenizer(calls[c].st))
           writes == r.content # <<>> /\ editorRef = "editor"
           newValue == IF writes THEN editor \o r.content ELSE editor
       IN  /\ editor' = newValue
           /\ state' = [state EXCEPT
                  !.prompt = IF writes THEN newValue ELSE @,
                  !.meta.isLoading = IF r.threw THEN FALSE ELSE @]
           /\ alerts' = IF r.threw
                        THEN Append(alerts, [call |-> c, text |->
                                 AlertText([isError |-> TRUE, message |-> <<"Unexpected token">>])])
                        ELSE alerts
           /\ calls' = [MarkForeign(calls, c, writes) EXCEPT
                  ![c].assistantResponse = @ \o r.content,
                  ![c].wire = Append(@, chunk),
                  ![c].pc = IF r.threw THEN "failed" ELSE @,
                  ![c].cause = IF r.threw THEN "decode" ELSE @]
    /\ UNCHANGED <<codec, pageVars, snap, editorRef, requests>>

\* an end of stream that appends the closing marker in every case
ReadDoneAlwaysCloses(c) ==
    /\ calls[c].pc = "reading"
    /\ LET writes == editorRef = "editor"
           newValue == IF writes THEN editor \o <<NL>> \o IM_END \o <<NL, NL>> ELSE editor
       IN  /\ editor' = newValue
           /\ state' = [state EXCEPT !.prompt = IF writes THEN newValue ELSE @,
                                     !.meta.isLoading = FALSE]
           /\ calls' = [MarkForeign(calls, c, writes) EXCEPT
                  ![c].pc = "done"]
    /\ UNCHANGED <<codec, pageVars, snap, editorRef, requests, alerts>>

\* reader.read() resolves with done: final formatting, then finally
ReadDone(c) ==
    /\ calls[c].pc = "reading"
    /\ LET closing == calls[c].assistantResponse # <<>> /\ ~hasTokenizer(calls[c].st)
           writes == closing /\ editorRef = "editor"
           newValue == IF writes THEN editor \o <<NL>> \o IM_END \o <<NL, NL>> ELSE editor
       IN  /\ editor' = newValue
           /\ state' = [state EXCEPT !.prompt = IF writes THEN newValue ELSE @,
                                     !.meta.isLoading = FALSE]
           /\ calls' = [MarkForeign(calls, c, writes) EXCEPT
                  ![c].pc = "done"]
    /\ UNCHANGED <<codec, pageVars, snap, editorRef, requests, alerts>>

\* a read error answered by sending the request again
ReadRejectRetries(c) ==
    /\ calls[c].pc = "reading"
    /\ calls' = [calls EXCEPT ![c].pc = "fetching"]
    /\ requests' = Append(requests, requests[CHOOSE i \in 1..Len(requests) : requests[i].call = c])
    /\ UNCHANGED <<codec, pageVars, state, snap, editorRef, editor, alerts>>

\* reader.read() rejects
ReadReject(c) ==
    /\ calls[c].pc = "reading"
    /\ Catch(c, ReadFailure, "read")
    /\ UNCHANGED <<codec, pageVars, snap, editorRef, requests>>

\* the first commit: PromptEditor's effect creates the widget, then the
\* three effects of useClientState run over the initial state
Mount ==
    /\ ~life.committed
    /\ LET R == snap
           u == UrlEffect(R, state, life, TRUE)
           i == InitEffect(R, u.state, <<>>, u.life, TRUE, "editor", 0)
       IN  /\ editorRef' = "editor"
           /\ editor' = i.editor
           /\ state' = i.state
           /\ life' = [i.life EXCEPT !.committed = TRUE, !.mounts = 1,
                                     !.depInit = R.meta.initialization, !.depEditor = 0]
           /\ localStorage' = Persist(R)
    /\ UNCHANGED <<codec, snap, calls, requests, alerts, location, clipboard>>

\* the component renders again: the handlers are created anew over the
\* current state and the effect registers them in place of the old ones;
\* then the effects whose dependencies have changed run
Render ==
    /\ life.committed
    /\ snap # state
    /\ LET R == state
           u == UrlEffect(R, state, life, FALSE)
           i == InitEffect(R, u.state, editor, u.life, FALSE, editorRef, DepEditor)
       IN  /\ snap' = R
           /\ state' = i.state
           /\ editor' = i.editor
           /\ calls' = MarkForeign(calls, 0, i.wrote)
           /\ life' = [i.life EXCEPT !.depInit = R.meta.initialization,
                                     !.depEditor = DepEditor]
           /\ localStorage' = Persist(R)
    /\ UNCHANGED <<codec, editorRef, requests, alerts, location, clipboard>>

clearPrompt ==
    /\ editor' = IF editorRef = "editor" THEN <<>> ELSE editor
    /\ state' = [state EXCEPT !.prompt = <<>>]
    /\ calls' = MarkForeign(calls, 0, editorRef = "editor")
    /\ UNCHANGED <<codec, pageVars, snap, editorRef, requests, alerts>>

handleTokenizerUrlChange(value) ==
    /\ state' = [state EXCEPT !.tokenizerUrl = value]
    /\ UNCHANGED <<codec, pageVars, snap, editorRef, editor, calls, requests, alerts>>

handleApiBaseUrlChange(value) ==
    /\ state' = [state EXCEPT !.apiBaseUrl = value]
    /\ UNCHANGED <<codec, pageVars, snap, editorRef, editor, calls, requests, alerts>>

handleModelChange(value) ==
    /\ state' = [state EXCEPT !.model = value]
    /\ UNCHANGED <<codec, pageVars, snap, editorRef, editor, calls, requests, alerts>>

handleApiKeyChange(value) ==
    /\ state' = [state EXCEPT !.meta.apiKey = value]
    /\ UNCHANGED <<codec, pageVars, snap, editorRef, editor, calls, requests, alerts>>

\* params: { ...prev.params, ...params }
handleParamsChange(params) ==
    /\ state' = [state EXCEPT !.params = params @@ @]
    /\ UNCHANGED <<codec, pageVars, snap, editorRef, editor, calls, requests, alerts>>

\* the text of a number field changes: the field's onChange hands the parsed
\* value to handleParamsChange
paramInput(p, text) ==
    handleParamsChange([q \in {p} |-> ParamValue(p, NumberInputValue(text))])

\* insertTemplate with the cursor after the first pos tokens:
\* onDidChangeModelContent calls handlePromptChange with the new text
insertTemplate(role, pos) ==
    /\ editorRef = "editor"
    /\ pos \in 0..Len(editor)
    /\ editor' = SubSeq(editor, 1, pos) \o <<RoleTag(role), NL, NL>> \o IM_END \o <<NL>>
                     \o SubSeq(editor, pos + 1, Len(editor))
    /\ state' = [state EXCEPT !.prompt = editor']
    /\ calls' = MarkForeign(calls, 0, TRUE)
    /\ UNCHANGED <<codec, pageVars, snap, editorRef, requests, alerts>>

\* the user replaces the text of the widget: onDidChangeModelContent calls
\* handlePromptChange with `getValue() || ""`
editorInput(text) ==
    /\ editorRef = "editor"
    /\ editor' = text
    /\ state' = [state EXCEPT !.prompt = text]
    /\ calls' = MarkForeign(calls, 0, TRUE)
    /\ UNCHANGED <<codec, pageVars, snap, editorRef, requests, alerts>>

\* the link holds the state of the render the handler was created in, less
\* meta; the clipboard takes it and the notice is shown
shareAsUrl ==
    /\ life.shares < MaxShares
    /\ clipboard' = Append(clipboard, EncodeState(JsonStringify(WithoutMeta(snap))))
    /\ alerts' = Append(alerts, [call |-> 0, text |-> <<"URL copied to clipboard!">>])
    /\ life' = [life EXCEPT !.shares = @ + 1]
    /\ UNCHANGED <<codec, state, snap, editorRef, editor, calls, requests,
                   localStorage, location>>

\* PromptEditor's effect cleanup: the widget is disposed
disposeEditor ==
    /\ editorRef = "editor"
    /\ life.mounts < MaxMounts
    /\ editorRef' = "null"
    /\ editor' = <<>>
    /\ UNCHANGED <<codec, pageVars, state, snap, calls, requests, alerts>>

\* PromptEditor's effect on a mount after the first: a new, empty widget
createEditor ==
    /\ life.committed
    /\ editorRef = "null"
    /\ life.mounts < MaxMounts
    /\ editorRef' = "editor"
    /\ editor' = <<>>
    /\ life' = [life EXCEPT !.mounts = @ + 1]
    /\ UNCHANGED <<codec, state, snap, calls, requests, alerts,
                   localStorage, location, clipboard>>

\* chunks of the transport in Spec: one chat record and one completion record
HelloDelta == <<DATA, OC, "He", "llo", CC, NL, NL>>

HelloText == <<DATA, OT, "He", "llo", CT, NL, NL>>

SpecChunks == {HelloDelta, HelloText}

Next ==
    \/ sendRequest
    \/ Render
    \/ clearPrompt
    \/ \E v \in TokenizerUrls : handleTokenizerUrlChange(v)
    \/ \E c \in CallIds : FetchReject(c)
    \/ \E c \in CallIds, r \in Responses : FetchResolve(c, r)
    \/ \E c \in CallIds, k \in SpecChunks : ReadChunk(c, k, MaxChunks)
    \/ \E c \in CallIds : ReadDone(c)
    \/ \E c \in CallIds : ReadReject(c)

Spec == Init /\ [][Next]_vars

(***************************************************************************)
(* StreamSpec: one generate call and the stream it reads.  The user        *)
(* invokes generate once on the template prompt and may change the         *)
(* tokenizer URL at any time; the                                          *)
(* transport delivers up to MaxStreamChunks chunks, cut at any place of a  *)
(* line.                                                                   *)
(***************************************************************************)
HelloHead == <<DATA, OC, "He">>

HelloTail == <<"llo", CC, NL, NL>>

DoneLine == <<DATA, DONE, NL>>

BadLine == <<DATA, "not-json", NL>>

\* a line that is not JSON between two valid data lines
Mixed == <<DATA, OC, "He", CC, NL, DATA, "not-json", NL, DATA, OC, "llo", CC, NL>>

StreamChunks == {HelloHead, HelloTail, DoneLine, BadLine, Mixed, HelloDelta, HelloText}

StreamNext ==
    \/ calls[1].pc = "idle" /\ sendRequest
    \/ Render
    \/ \E v \in TokenizerUrls : handleTokenizerUrlChange(v)
    \/ FetchReject(1)
    \/ \E r \in Responses : FetchResolve(1, r)
    \/ \E k \in StreamChunks : ReadChunk(1, k, MaxStreamChunks)
    \/ ReadDone(1)
    \/ ReadReject(1)

StreamInit == InitWith({TemplatePrompt}, TokenizerUrls)

StreamSpec == StreamInit /\ [][StreamNext]_vars

\* the call's continuations are tasks of the event loop: one that can run,
\* runs. The transport settles every fetch and ends or fails every stream.
FairStreamSpec ==
    StreamSpec /\ WF_vars(FetchReject(1) \/ (\E r \in Responses : FetchResolve(1, r)))
               /\ WF_vars(ReadDone(1) \/ ReadReject(1))

(***************************************************************************)
(* LifeSpec: a page load from construction on.  The store holds what an    *)
(* earlier visit left (nothing, text that is not JSON, or a settings       *)
(* record) and the address may carry a `state` parameter.  The user edits  *)
(* the settings and the prompt.                                            *)
(***************************************************************************)
\* a settings record as the persistence effect writes it
SavedRecord ==
    [apiBaseUrl |-> "https://saved.example/v1",
     model |-> "saved-model",
     params |-> [DEFAULT_PARAMS EXCEPT !.maxTokens = <<Number(16)>>],
     prompt |-> TemplatePrompt,
     tokenizerUrl |-> <<>>]

LifeStores ==
    [llm_client_state : {NoItem, NotJson, JsonStringify(SavedRecord)},
     api_key : {"null", "sk-key"}]

\* the payload of a share link, as shareAsUrl writes it
SharedRecord ==
    [apiBaseUrl |-> "https://shared.example/v1",
     model |-> "shared-model",
     params |-> [DEFAULT_PARAMS EXCEPT !.temperature = <<Number(0)>>],
     prompt |-> DraftPrompt,
     tokenizerUrl |-> <<"https://tok">>]

\* a hand-made payload: one field, with one parameter, and a meta record
PartialRecord ==
    [params |-> [topK |-> <<Number(40)>>],
     meta |-> [isLoading |-> TRUE, initialization |-> "completed", apiKey |-> "sk-other"]]

\* the `state` parameter: none, one that is not base64, one that is not
\* JSON, and decodable ones
UrlStates ==
    { NoItem, NotBase64, EncodeState(NotJson),
      EncodeState(JsonStringify(SharedRecord)),
      EncodeState(JsonStringify(PartialRecord)) }

EditTexts == { <<"<|user|>", NL, "yo">> }

ApiKeys == {"sk-new", ""}

ParamEdits == { [maxTokens |-> <<Number(0)>>], [temperature |-> <<>>, topP |-> <<Number(1)>>] }

LifeInitWith(stores, urls) ==
    /\ codec = CodecIdle
    /\ localStorage \in stores
    /\ location \in urls
    /\ state = InitialState(localStorage)
    /\ snap = state
    /\ editorRef = "null"
    /\ editor = <<>>
    /\ calls = [c \in CallIds |-> IdleCall]
    /\ requests = <<>>
    /\ alerts = <<>>
    /\ clipboard = <<>>
    /\ life = NewLife

LifeInit == LifeInitWith(LifeStores, UrlStates)

\* a user event is a task of its own: the renders queued before it have
\* been committed, with their effects, when its handler runs
Settled == life.committed /\ snap = state

LifeNext ==
    \/ Mount
    \/ Render
    \/ Settled /\ \E t \in EditTexts : editorInput(t)
    \/ Settled /\ clearPrompt
    \/ Settled /\ \E v \in TokenizerUrls : handleTokenizerUrlChange(v)
    \/ Settled /\ handleApiBaseUrlChange("https://other.example/v1")
    \/ Settled /\ handleModelChange("other-model")
    \/ Settled /\ \E v \in ApiKeys : handleApiKeyChange(v)
    \/ Settled /\ \E ps \in ParamEdits : handleParamsChange(ps)

LifeSpec == LifeInit /\ [][LifeNext]_vars

\* every render that is due is committed
FairLifeSpec == LifeSpec /\ WF_vars(Mount \/ Render)

(***************************************************************************)
(* TeardownSpec: LifeSpec where the widget may be disposed and created     *)
(* again.                                                                  *)
(***************************************************************************)
TeardownNext ==
    \/ LifeNext
    \/ Settled /\ disposeEditor
    \/ Settled /\ createEditor

TeardownSpec == LifeInit /\ [][TeardownNext]_vars

(***************************************************************************)
(* SessionSpec: a page load on which the user edits the prompt and the     *)
(* API key, shares, and runs one generate call.                            *)
(***************************************************************************)
SessionNext ==
    \/ Mount
    \/ Render
    \/ Settled /\ \E t \in EditTexts : editorInput(t)
    \/ Settled /\ \E v \in ApiKeys : handleApiKeyChange(v)
    \/ Settled /\ shareAsUrl
    \/ Settled /\ calls[1].pc = "idle" /\ sendRequest
    \/ FetchReject(1)
    \/ \E r \in Responses : FetchResolve(1, r)
    \/ \E k \in SpecChunks : ReadChunk(1, k, MaxChunks)
    \/ ReadDone(1)
    \/ ReadReject(1)

\* a first visit, and a return with or without a settings record that parses
SessionStores ==
    { [llm_client_state |-> NoItem, api_key |-> "null"],
      [llm_client_state |-> NotJson, api_key |-> "sk-key"],
      [llm_client_state |-> JsonStringify(SavedRecord), api_key |-> "sk-key"] }

\* no parameter, a share link, and the hand-made payload with a meta record
SessionUrls ==
    { NoItem, EncodeState(JsonStringify(SharedRecord)),
      EncodeState(JsonStringify(PartialRecord)) }

SessionInit == LifeInitWith(SessionStores, SessionUrls)

SessionSpec == SessionInit /\ [][SessionNext]_vars

(***************************************************************************)
(* RequestSpec: after page load the user sets the tokenizer URL, types     *)
(* into the number fields, clears the prompt or inserts a template, and    *)
(* generates once; the request is rejected.                                *)
(***************************************************************************)
\* texts typed into a number field: nothing, 0, 7, .5, 1.5, 1e2, ab
ParamTexts ==
    { <<>>, <<"0">>, <<"7">>, <<".", "5">>, <<"1", ".", "5">>, <<"1", "e", "2">>,
      <<"a", "b">> }

\* a tokenizer URL that is set, one that is empty and one of white space
RequestTokenizerUrls == { <<>>, <<" ">>, <<"https://tok">> }

\* prompts that end with the end-of-turn marker, with the marker and a
\* newline or a blank after it, with an open turn, and the empty prompt
RequestPrompts ==
    { <<>>,
      TemplatePrompt,
      DraftPrompt,
      <<"<|user|>", NL, "hi", NL, IM1, IM2>>,
      <<"<|user|>", NL, "hi", IM1, IM2, NL, "<|assistant|>", NL, "yo", IM1, IM2, " ">> }

RequestInit == InitWith(RequestPrompts, RequestTokenizerUrls)

\* no more than MaxSetParams parameters hold a value after p has been set
MaySet(p) ==
    Cardinality({q \in ParamNames \ {p} : state.params[q] # <<>>}) < MaxSetParams

RequestNext ==
    \/ Render
    \/ Settled /\ calls[1].pc = "idle"
          /\ \E p \in ParamNames, t \in ParamTexts : MaySet(p) /\ paramInput(p, t)
    \/ Settled /\ calls[1].pc = "idle"
          /\ \E u \in RequestTokenizerUrls : handleTokenizerUrlChange(u)
    \/ Settled /\ calls[1].pc = "idle" /\ editor # <<>> /\ clearPrompt
    \/ Settled /\ calls[1].pc = "idle" /\ editor = <<>>
          /\ \E r \in Roles : insertTemplate(r, 0)
    \/ Settled /\ calls[1].pc = "idle" /\ sendRequest
    \/ FetchReject(1)

RequestSpec == RequestInit /\ [][RequestNext]_vars

(***************************************************************************)
(* GenerateSpec: a page load from any stored record and any page address,  *)
(* after which the user sets the tokenizer URL and generates once.         *)
(***************************************************************************)
GenerateNext ==
    \/ Mount
    \/ Render
    \/ Settled /\ calls[1].pc = "idle"
          /\ \E u \in TokenizerUrls : handleTokenizerUrlChange(u)
    \/ Settled /\ calls[1].pc = "idle" /\ sendRequest
    \/ FetchReject(1)

GenerateSpec == LifeInit /\ [][GenerateNext]_vars

(***************************************************************************)
(* TurnSpec: one chat call from a loaded page, read to the end of its      *)
(* stream, with nobody else writing the buffer.                            *)
(***************************************************************************)
\* a delta of white space, and one that starts with white space
SpaceDelta == <<DATA, OC, " ", CC, NL, NL>>

PaddedDelta == <<DATA, OC, " ", "He", CC, NL, NL>>

TurnChunks == {HelloDelta, SpaceDelta, PaddedDelta}

\* a turn whose content holds the end-of-turn marker inside a broken one
NestedPrompt == <<"<|user|>", IM1, IM1, IM2, IM2>>

TurnPrompts == {TemplatePrompt, DraftPrompt, NestedPrompt}

TurnInit == InitWith(TurnPrompts, {<<>>})

TurnNext ==
    \/ Settled /\ calls[1].pc = "idle" /\ sendRequest
    \/ Render
    \/ \E r \in Responses : FetchResolve(1, r)
    \/ \E k \in TurnChunks : ReadChunk(1, k, MaxStreamChunks)
    \/ ReadDone(1)

TurnSpec == TurnInit /\ [][TurnNext]_vars

(***************************************************************************)
(* ShareSpec: a page load from any stored record and any page address, on  *)
(* which the user edits the prompt and shares.                             *)
(***************************************************************************)
ShareNext ==
    \/ Mount
    \/ Render
    \/ Settled /\ \E t \in EditTexts : editorInput(t)
    \/ Settled /\ shareAsUrl

ShareSpec == LifeInit /\ [][ShareNext]_vars

(***************************************************************************)
(* UrlCodecSpec: a settings record with a prompt of up to MaxTextLen       *)
(* characters is encoded for a share link and decoded again.               *)
(***************************************************************************)
UrlCodecInit ==
    /\ \E p \in SeqsUpTo(PromptChars, MaxTextLen) :
           codec = [UrlCodecIdle EXCEPT !.prompt = p]
    /\ state = LoadedState(<<>>, <<>>)
    /\ snap = state
    /\ editorRef = "null"
    /\ editor = <<>>
    /\ calls = [c \in CallIds |-> IdleCall]
    /\ requests = <<>>
    /\ alerts = <<>>
    /\ localStorage = Persist(state)
    /\ location = NoItem
    /\ clipboard = <<>>
    /\ life = LoadedLife

UrlCodecNext == UrlEncode \/ UrlDecode

UrlCodecSpec == UrlCodecInit /\ [][UrlCodecNext]_vars

(***************************************************************************)
(* CodecSpec                                                               *)
(***************************************************************************)
CodecInit ==
    /\ \/ \E b \in Buffers \cup {EmptyTurnBuffer} : codec = [CodecIdle EXCEPT !.stage = "input", !.kind = "buf", !.buf = b]
       \/ \E m \in MessageLists : codec = [CodecIdle EXCEPT !.stage = "input", !.kind = "msgs", !.msgs = m]
    /\ state = LoadedState(<<>>, <<>>)
    /\ snap = state
    /\ editorRef = "null"
    /\ editor = <<>>
    /\ calls = [c \in CallIds |-> IdleCall]
    /\ requests = <<>>
    /\ alerts = <<>>
    /\ localStorage = Persist(state)
    /\ location = NoItem
    /\ clipboard = <<>>
    /\ life = LoadedLife

CodecNext == CodecParse \/ CodecFormat \/ CodecReparse

CodecSpec == CodecInit /\ [][CodecNext]_vars

(***************************************************************************)
(* Properties                                                              *)
(***************************************************************************)
AlertsOf(c) == {i \in 1..Len(alerts) : alerts[i].call = c}

RequestsOf(c) == {i \in 1..Len(requests) : requests[i].call = c}

RECURSIVE Flatten(_)
Flatten(ss) == IF ss = <<>> THEN <<>> ELSE Head(ss) \o Flatten(Tail(ss))

Occurs(x, ss) == \E i \in 1..Len(ss) : ss[i] = x

\* C1: at most one generate operation is in flight at any time: an
\* invocation of sendRequest made before an earlier one has reached Done or
\* Failed issues no request.
C1_OneInFlight == Cardinality({c \in CallIds : calls[c].pc \in InFlight}) <= 1

\* C2: meta.isLoading is true exactly while a generate call has been
\* dispatched and has not reached Done or Failed.
C2_LoadingIffInFlight ==
    state.meta.isLoading <=> (\E c \in CallIds : calls[c].pc \in InFlight)

\* C3: every dispatched call reaches one terminal state and stays in it
\* (Done on end of stream; Failed on a rejected fetch, a non-2xx status, a
\* missing body or a read error); the step into it clears isLoading; after
\* it the call appends nothing; the call issues one request and no more.
C3_OneTerminalState ==
    /\ [](\A c \in CallIds :
            /\ Cardinality(RequestsOf(c)) = (IF calls[c].pc = "idle" THEN 0 ELSE 1)
            /\ calls[c].pc = "failed" => calls[c].cause \in {"network", "http", "body", "read"}
            /\ calls[c].pc = "done" => calls[c].cause = "none")
    /\ [][\A c \in CallIds :
            /\ calls[c].pc \in Terminal => calls'[c] = calls[c] /\ editor' = editor
            /\ (calls[c].pc \in InFlight /\ calls'[c].pc \in Terminal)
                   => ~state'.meta.isLoading
            /\ calls'[c].pc = "done" => calls[c].pc \in {"reading", "done"}]_vars
    /\ \A c \in CallIds : (calls[c].pc \in InFlight) ~> (calls[c].pc \in Terminal)

\* a call that received content has ended in Done and the flag is cleared
C3_Witness ==
    /\ calls[1].pc = "done"
    /\ calls[1].assistantResponse = <<"He", "llo">>
    /\ ~state.meta.isLoading

\* C4: a call that ends in Failed raises exactly one notification, which
\* holds the error's message (`HTTP <status>: <statusText>` for a non-2xx
\* response); a call that has not failed, whatever frames it could not
\* decode, raises none.
C4_OneNotificationPerFailure ==
    \A c \in CallIds :
        /\ calls[c].pc = "failed" => Cardinality(AlertsOf(c)) = 1
        /\ calls[c].pc # "failed" => AlertsOf(c) = {}
        /\ \A i \in AlertsOf(c) :
               alerts[i].text =
                   CASE calls[c].cause = "http" ->
                            <<"Request failed: ", "HTTP ", "500", ": ", "Internal Server Error">>
                     [] calls[c].cause = "body" -> <<"Request failed: ", "No response body">>
                     [] calls[c].cause = "network" -> <<"Request failed: ">> \o NetworkError.message
                     [] calls[c].cause = "read" -> <<"Request failed: ">> \o ReadFailure.message
                     [] OTHER -> <<>>

\* the call skipped a frame it could not decode and then failed on a read
\* error: one notification, for the read error
C4_Witness ==
    /\ calls[1].pc = "failed"
    /\ calls[1].cause = "read"
    /\ Occurs(BadLine, calls[1].wire)
    /\ Len(alerts) = 1

\* C5: a call that ends in Failed before any delta was received leaves the
\* editor buffer as it was when generate was invoked, in both variants
\* (nobody else having written the buffer meanwhile).
C5_FailedKeepsBuffer ==
    [][\A c \in CallIds :
          (/\ calls[c].pc \in InFlight
           /\ calls'[c].pc = "failed"
           /\ calls'[c].assistantResponse = <<>>
           /\ ~calls'[c].foreign)
          => editor' = calls[c].buf0]_vars

\* C6: the total extracted content depends only on the concatenation of the
\* received chunks: it is what the assembler extracts from that text
\* received as one chunk.
C6_ContentIndependentOfChunking ==
    \A c \in CallIds :
        calls[c].pc = "done" =>
            calls[c].assistantResponse =
                ProcessChunk(Flatten(calls[c].wire), hasTokenizer(calls[c].st)).content

\* what a line of a chunk holds for the variant: the content of a data line
\* whose payload is a record, nothing otherwise
LineContent(line, tokenizer) ==
    IF line # <<>> /\ Head(line) = DATA /\ ParseJson(Tail(line)).ok
    THEN ExtractContent(ParseJson(Tail(line)), tokenizer)
    ELSE <<>>

ChunkContent(chunk, tokenizer) ==
    LET lines == SplitLines(chunk, <<>>)
    IN  Flatten([i \in 1..Len(lines) |-> LineContent(lines[i], tokenizer)])

WireContent(wire, tokenizer) ==
    Flatten([i \in 1..Len(wire) |-> ChunkContent(wire[i], tokenizer)])

\* C7: a data line whose payload is not JSON is skipped and the stream goes
\* on: the call has appended the content of every valid data line of every
\* chunk read, before and after such a line, no notification is raised for
\* it and the call does not fail on it.
C7_BadLineSkipped ==
    \A c \in CallIds :
        /\ calls[c].cause # "decode"
        /\ calls[c].pc \in {"reading", "done"} =>
               /\ calls[c].assistantResponse =
                      WireContent(calls[c].wire, hasTokenizer(calls[c].st))
               /\ AlertsOf(c) = {}

\* bad lines between valid ones, in one chunk and across chunks; ended in Done
C7_Witness ==
    /\ calls[1].pc = "done"
    /\ calls[1].wire = <<Mixed, BadLine, HelloDelta>>
    /\ calls[1].assistantResponse = <<"He", "llo", "He", "llo">>
    /\ alerts = <<>>

\* a content that parseMessages and messagesToPrompt leave as it is
NormalContent(content) ==
    /\ content # <<>>
    /\ Trim(content) = content
    /\ ~HasImEnd(content)
    /\ \A i \in 1..Len(content) : content[i] \notin RoleMarkers

\* C8 as stated: for every list m of messages whose contents are non-empty
\* after trimming, also ones that contain role-marker or end-of-turn-marker
\* text, parseMessages(messagesToPrompt(m)) = m. (Read in its favour: the
\* contents are trimmed already.)
C8_RoundTripAll ==
    (/\ codec.kind = "msgs"
     /\ codec.stage = "reparsed"
     /\ \A i \in 1..Len(codec.msgs) :
            LET content == codec.msgs[i].content
            IN  content # <<>> /\ Trim(content) = content)
    => codec.reparsed = codec.msgs

\* C8, amended: for every list m of messages whose contents are non-empty,
\* have no leading or trailing white space and contain neither a role marker
\* nor the end-of-turn marker, parseMessages(messagesToPrompt(m)) = m.
C8_RoundTripNormal ==
    (/\ codec.kind = "msgs"
     /\ codec.stage = "reparsed"
     /\ \A i \in 1..Len(codec.msgs) : NormalContent(codec.msgs[i].content))
    => codec.reparsed = codec.msgs

C8_Witness ==
    /\ codec.kind = "msgs"
    /\ codec.stage = "reparsed"
    /\ codec.msgs = <<[role |-> "user", content |-> <<IM1, "a">>],
                      [role |-> "assistant", content |-> <<"a", NL, "b">>]>>
    /\ codec.reparsed = codec.msgs

\* C9: parseMessages(messagesToPrompt(parseMessages(x))) = parseMessages(x)
\* for every buffer x.
C9_OnePassNormalizes ==
    (codec.kind = "buf" /\ codec.stage = "reparsed") => codec.reparsed = codec.parsed

\* C10: every message parseMessages returns has a content that is non-empty,
\* has no leading or trailing white space and does not contain <|im_end|>.
C10_ContentNormal ==
    (codec.kind = "buf" /\ codec.stage = "parsed") =>
        \A i \in 1..Len(codec.parsed) :
            LET content == codec.parsed[i].content
            IN  content # <<>> /\ Trim(content) = content /\ ~HasImEnd(content)

\* the places of the role markers in a buffer
MarkerPositions(buf) == {i \in 1..Len(buf) : buf[i] \in RoleMarkers}

\* the text between the marker at place i and the next marker or the end
SegmentAfter(buf, i) ==
    LET later == {j \in MarkerPositions(buf) : j > i}
        stop == IF later = {} THEN Len(buf) + 1
                ELSE CHOOSE j \in later : \A k \in later : j <= k
    IN  SubSeq(buf, i + 1, stop - 1)

\* the markers whose segment holds more than white space once the
\* end-of-turn markers are taken out
KeptMarkers(buf) ==
    {i \in MarkerPositions(buf) : Trim(StripImEnd(SegmentAfter(buf, i))) # <<>>}

\* C11: parseMessages partitions the buffer at the role markers: no marker,
\* no message; the text before the first marker does not affect the result;
\* the result lists, in buffer order, one message per marker whose segment
\* has non-white-space content after the end markers are stripped, with that
\* marker's role, and a marker with an empty segment yields no message.
C11_PartitionAtMarkers ==
    (codec.kind = "buf" /\ codec.stage = "parsed") =>
        LET buf == codec.buf
            marks == MarkerPositions(buf)
            kept == KeptMarkers(buf)
            first == CHOOSE i \in marks : \A j \in marks : i <= j
        IN  /\ marks = {} => codec.parsed = <<>>
            /\ marks # {} =>
                   codec.parsed = parseMessages(SubSeq(buf, first, Len(buf)))
            /\ Len(codec.parsed) = Cardinality(kept)
            /\ \A k \in 1..Len(codec.parsed) :
                   LET i == CHOOSE i \in kept : Cardinality({j \in kept : j < i}) = k - 1
                   IN  /\ codec.parsed[k].role = RoleOf(buf[i])
                       /\ codec.parsed[k].content = Trim(StripImEnd(SegmentAfter(buf, i)))

\* the system turn is returned, the empty user turn is not
C11_Witness ==
    /\ codec.kind = "buf"
    /\ codec.stage = "parsed"
    /\ codec.buf = EmptyTurnBuffer
    /\ codec.parsed = <<[role |-> "system", content |-> <<"Hi">>]>>

\* C12: starting from pending with no `state` parameter, the state goes to
\* pulled exactly once (at the first commit), the URL is decoded at most
\* once per page load however many renders follow, and meta.initialization
\* never returns to pending.
C12_PulledOnce ==
    /\ [](/\ life.decodes <= 1
          /\ life.pulls <= 1
          /\ ~life.committed => state.meta.initialization = "pending" /\ life.pulls = 0
          /\ (location = NoItem /\ life.committed) =>
                 /\ state.meta.initialization = "pulled"
                 /\ life.pulls = 1
                 /\ life.decodes = 0)
    /\ [][state.meta.initialization # "pending" =>
              state'.meta.initialization # "pending"]_vars

\* no parameter, pulled once, and the component has rendered again after a
\* later edit
C12_Witness ==
    /\ location = NoItem
    /\ life.pulls = 1
    /\ snap.meta.initialization = "pulled"
    /\ snap.model = "other-model"
    /\ snap.params.maxTokens = <<Number(0)>>

\* C13: when the `state` parameter is present and cannot be decoded, the
\* failure is caught and the lifecycle still goes from pending to pulled:
\* once the URL effect has run, meta.initialization is not pending.
C13_UndecodableStillPulled ==
    (/\ life.committed
     /\ location.kind # "null"
     /\ ~DecodeState(location).ok)
    => state.meta.initialization # "pending"

\* C14: once the widget exists and meta.initialization is pulled, the
\* initialization effect sets the editor to state.prompt and
\* meta.initialization becomes completed: after the effect has populated the
\* editor, meta.initialization is completed.
C14_PopulatedIsCompleted ==
    life.populated > 0 => state.meta.initialization = "completed"

\* C15: after a teardown of the widget the lifecycle is back at pulled, and
\* when a widget is mounted again it is populated from the current
\* state.prompt and the lifecycle returns to completed: once the second
\* widget has been populated and the renders have settled, the editor holds
\* state.prompt and meta.initialization is completed.
C15_RemountCompletes ==
    (/\ life.mounts > 1
     /\ editorRef = "editor"
     /\ life.populated > 1
     /\ Settled)
    => /\ editor = state.prompt
       /\ state.meta.initialization = "completed"

\* C16: for a widget that stays mounted the initialization effect populates
\* the editor from state exactly once per page load: not a second time (a
\* render after the population leaves the buffer alone, whatever the user
\* typed or the stream appended since), and not zero times once the
\* lifecycle has left pending and the renders have settled.
C16_PopulatedOnce ==
    /\ [](/\ life.populated <= 1
          /\ (Settled /\ state.meta.initialization # "pending") => life.populated = 1)
    /\ [][(life.populated = 1 /\ snap' # snap) => editor' = editor]_vars

\* populated once; the call has streamed its content into the buffer and
\* the renders that followed have left it there
C16_Witness ==
    /\ life.populated = 1
    /\ Settled
    /\ calls[1].pc = "done"
    /\ Occurs("llo", editor)

\* the fields of the settings that are not transient
NonMetaFields == {"apiBaseUrl", "model", "tokenizerUrl", "prompt", "params"}

\* C17: the entry llm_client_state and every share link hold only the
\* non-meta fields apiBaseUrl, model, tokenizerUrl, prompt and params:
\* neither isLoading nor an initialization lifecycle value is serialized.
C17_OnlySettingsSerialized ==
    /\ localStorage.llm_client_state.kind = "json" =>
           DOMAIN localStorage.llm_client_state.value \subseteq NonMetaFields
    /\ \A i \in 1..Len(clipboard) :
           DOMAIN clipboard[i].text.value \subseteq NonMetaFields

\* the bearer credentials of a run: the stored one and the ones the user enters
Credentials == {"sk-key"} \cup (ApiKeys \ {""})

\* a serialized record holds a credential: in a meta record or an apiKey
\* field, or as the text of one of its fields
HoldsCredential(obj) ==
    \/ "meta" \in DOMAIN obj
    \/ "apiKey" \in DOMAIN obj
    \/ \E k \in DOMAIN obj \cap {"apiBaseUrl", "model", "initialization"} :
           obj[k] \in Credentials
    \/ \E k \in DOMAIN obj \cap {"prompt", "tokenizerUrl"} :
           \E i \in 1..Len(obj[k]) : obj[k][i] \in Credentials

\* C18: the bearer credential is never in the entry llm_client_state nor in
\* a share link; it is written only to the entry api_key (which holds the
\* credential of the last render) and to the Authorization header of the
\* generate request, whose body does not hold it.
C18_CredentialOnlyInKeyEntry ==
    /\ localStorage.llm_client_state.kind = "json" =>
           ~HoldsCredential(localStorage.llm_client_state.value)
    /\ \A i \in 1..Len(clipboard) : ~HoldsCredential(clipboard[i].text.value)
    /\ \A i \in 1..Len(requests) :
           /\ requests[i].authorization[1] = "Bearer "
           /\ DOMAIN requests[i].body \cap {"meta", "apiKey"} = {}
           /\ requests[i].body.model \notin Credentials
    /\ life.committed =>
           localStorage.api_key = (IF Falsy(snap.meta.apiKey) THEN "" ELSE snap.meta.apiKey)

\* the user has entered a credential; it is in the entry api_key and in the
\* header of the request sent, and a link has been shared
C18_Witness ==
    /\ localStorage.api_key = "sk-new"
    /\ Len(clipboard) = 1
    /\ Len(requests) = 1
    /\ requests[1].authorization = <<"Bearer ", "sk-new">>
    /\ localStorage.llm_client_state.kind = "json"

\* the entry llm_client_state holds the JSON of the non-meta state
PersistedIsCurrent ==
    localStorage.llm_client_state = JsonStringify(WithoutMeta(state))

\* C19: every change to a non-meta field (by a form edit, a change
\* notification of the editor, a URL pull or Clear) is followed by a
\* persistence write: once the renders and their effects have run, the
\* entry llm_client_state is the JSON of the current non-meta state, and a
\* state that is not persisted yet leads to one that is.
C19_PersistedAfterChange ==
    /\ [](Settled => PersistedIsCurrent)
    /\ (life.committed /\ ~PersistedIsCurrent) ~> PersistedIsCurrent

\* a URL pull, form edits and Clear have all been persisted
C19_Witness ==
    /\ Settled
    /\ location = EncodeState(JsonStringify(SharedRecord))
    /\ state.model = "other-model"
    /\ state.apiBaseUrl = "https://other.example/v1"
    /\ state.tokenizerUrl = <<>>
    /\ state.params.maxTokens = <<Number(0)>>
    /\ state.params.temperature = <<Number(0)>>
    /\ state.prompt = <<>>
    /\ PersistedIsCurrent

\* C20: the initial state is the persisted record when there is one and it
\* parses, else the defaults, with isLoading false and initialization
\* pending; when a decodable URL state is pulled, each top-level non-meta
\* field it holds replaces the value in memory (params as a whole) and each
\* field it does not hold keeps its persisted or default value.  After the
\* first commit snap is still the initial state and state is the merged one.
C20_SourcePrecedence ==
    /\ ~life.committed =>
           /\ state.meta.isLoading = FALSE
           /\ state.meta.initialization = "pending"
           /\ WithoutMeta(state) =
                  (IF localStorage.llm_client_state.kind = "json"
                   THEN localStorage.llm_client_state.value
                   ELSE WithoutMeta(DEFAULT_STATE))
    /\ (/\ life.committed
        /\ snap.meta.initialization = "pending"
        /\ DecodeState(location).ok)
       => LET decoded == DecodeState(location).value
          IN  /\ DOMAIN state = DOMAIN snap \cup DOMAIN decoded
              /\ \A k \in DOMAIN state \ {"meta"} :
                     state[k] = (IF k \in DOMAIN decoded THEN decoded[k] ELSE snap[k])

\* the persisted record was loaded and the URL's params have replaced its
\* params as a whole; the fields the URL does not hold are the persisted ones
C20_Witness ==
    /\ life.committed
    /\ snap.meta.initialization = "pending"
    /\ snap.params = SavedRecord.params
    /\ location = EncodeState(JsonStringify(PartialRecord))
    /\ state.params = [topK |-> <<Number(40)>>]
    /\ state.model = "saved-model"
    /\ state.prompt = TemplatePrompt

\* C21 as stated: for any settings record x, decoding the encoding of x
\* yields x: the encoding does not fail, and no run ends with a record
\* other than x.
C21_UrlRoundTripAll ==
    /\ codec.stage \notin {"threw", "failed"}
    /\ codec.stage = "decoded" => codec.decoded = codec.prompt

\* C22: whenever Share is invoked while the editor widget is mounted, the
\* prompt of the link that is made equals the editor's buffer at that
\* moment.
C22_ShareUsesLivePrompt ==
    [][(Len(clipboard') = Len(clipboard) + 1 /\ editorRef = "editor")
          => clipboard'[Len(clipboard')].text.value.prompt = editor]_vars

\* the state of the render in which the i-th request was made
StateOf(i) == calls[requests[i].call].st

\* the editor buffer when the i-th request was made
BufferOf(i) == calls[requests[i].call].buf0

IsNumber(v) == v # <<>> /\ ~v[1].nan

\* C23: in every request, each of the six parameters that holds a number is
\* in the body under its wire name with that number, and a parameter that
\* holds none is not a field of the body; no parameter field is null.
C23_ParamFieldsExact ==
    \A i \in 1..Len(requests) : \A p \in ParamNames :
        LET v == StateOf(i).params[p]
            body == requests[i].body
        IN  IF IsNumber(v)
            THEN WireName(p) \in DOMAIN body /\ body[WireName(p)] = v
            ELSE WireName(p) \notin DOMAIN body

\* C24: whatever is typed into a number field, the parameter is stored as
\* null or as a number, never as not-a-number, and 0 is stored as the
\* number 0.
C24_ParseFailureIsAbsent ==
    [][\A p \in ParamNames, t \in ParamTexts :
          paramInput(p, t) =>
              /\ state'.params[p] = <<>> \/ IsNumber(state'.params[p])
              /\ t = <<"0">> => state'.params[p] = <<Number(0)>>]_vars

\* C25: every request is a POST with stream: true; when the tokenizer URL
\* is not empty after trim it goes to {apiBaseUrl}/completions with a prompt
\* field, and otherwise to {apiBaseUrl}/chat/completions with a messages
\* field, whatever the other fields of the state are.
C25_VariantByTokenizerUrl ==
    \A i \in 1..Len(requests) :
        LET r == requests[i]
            st == StateOf(i)
        IN  /\ r.method = "POST"
            /\ r.body.stream = TRUE
            /\ IF Trim(st.tokenizerUrl) # <<>>
               THEN /\ r.endpoint = <<st.apiBaseUrl, "/completions">>
                    /\ "prompt" \in DOMAIN r.body
                    /\ "messages" \notin DOMAIN r.body
               ELSE /\ r.endpoint = <<st.apiBaseUrl, "/chat/completions">>
                    /\ "messages" \in DOMAIN r.body
                    /\ "prompt" \notin DOMAIN r.body

\* a request made with a tokenizer URL of white space, a parameter set and a
\* prompt that is not empty went to the chat endpoint
C25_Witness ==
    \E i \in 1..Len(requests) :
        /\ StateOf(i).tokenizerUrl = <<" ">>
        /\ StateOf(i).params.topK = <<Number(7)>>
        /\ BufferOf(i) # <<>>
        /\ requests[i].endpoint[2] = "/chat/completions"
        /\ requests[i].body.messages # <<>>

EndsWithImEnd(s) == Len(s) >= 2 /\ s[Len(s) - 1] = IM1 /\ s[Len(s)] = IM2

\* the number of end-of-turn markers in s
CountImEnd(s) == Cardinality({i \in 1..(Len(s) - 1) : s[i] = IM1 /\ s[i + 1] = IM2})

\* C28: in every completion request made from a buffer that ends with the
\* end-of-turn marker, also with white space after it, the prompt sent does
\* not end with the marker and holds one marker less than the buffer; from
\* any other buffer the prompt holds as many markers as the buffer.
C28_TrailingMarkerStripped ==
    \A i \in 1..Len(requests) :
        "prompt" \in DOMAIN requests[i].body =>
            LET sent == requests[i].body.prompt
                buf == BufferOf(i)
            IN  IF EndsWithImEnd(TrimEnd(buf))
                THEN ~EndsWithImEnd(sent) /\ CountImEnd(sent) = CountImEnd(buf) - 1
                ELSE CountImEnd(sent) = CountImEnd(buf)

\* C27: when a request is made, in the chat variant its messages are
\* parseMessages of the editor buffer at that moment and the buffer becomes
\* messagesToPrompt(messages), a blank line and the assistant marker; in the
\* completion variant the buffer stays as it is.
C27_ChatRequestFromLiveBuffer ==
    [][(Len(requests') = Len(requests) + 1 /\ editorRef = "editor") =>
          LET body == requests'[Len(requests')].body
          IN  IF "messages" \in DOMAIN body
              THEN /\ body.messages = parseMessages(editor)
                   /\ editor' = messagesToPrompt(parseMessages(editor))
                                    \o <<NL, NL, "<|assistant|>", NL>>
              ELSE editor' = editor]_vars

\* C26: while a generate call is in flight, every change of the editor
\* buffer is an append made by that call: a chunk that was read or the
\* closing marker.
C26_SingleWriter ==
    [][\A c \in CallIds :
          (calls[c].pc \in InFlight /\ editor' # editor) =>
              /\ Len(editor') > Len(editor)
              /\ SubSeq(editor', 1, Len(editor)) = editor
              /\ calls'[c].wire # calls[c].wire \/ calls'[c].pc = "done"]_vars

\* the editor buffer as sendRequest left it when it called fetch for call c
SentBuffer(c) ==
    IF Trim(calls[c].st.tokenizerUrl) # <<>>
    THEN calls[c].buf0
    ELSE messagesToPrompt(parseMessages(calls[c].buf0)) \o <<NL, NL, "<|assistant|>", NL>>

\* the deltas of the chunks call c has read, in arrival order
DeltasOf(c) == WireContent(calls[c].wire, Trim(calls[c].st.tokenizerUrl) # <<>>)

\* C29: while a call reads its stream and nobody else writes the buffer,
\* the buffer is the one at dispatch followed by the deltas of the chunks
\* read so far, in arrival order, each once; a chunk that holds no delta
\* (a [DONE] payload, a data line without content, a line without the data
\* prefix) leaves the buffer as it is.
C29_DeltasAppendedInOrder ==
    /\ [](\A c \in CallIds :
            calls[c].pc = "reading" => editor = SentBuffer(c) \o DeltasOf(c))
    /\ [][\A c \in CallIds :
            (/\ calls[c].pc = "reading"
             /\ Len(calls'[c].wire) = Len(calls[c].wire) + 1
             /\ ChunkContent(calls'[c].wire[Len(calls'[c].wire)],
                             Trim(calls[c].st.tokenizerUrl) # <<>>) = <<>>)
            => editor' = editor]_vars

\* two deltas with a [DONE] payload between them have been appended
C29_Witness ==
    /\ calls[1].pc = "reading"
    /\ calls[1].wire = <<HelloDelta, DoneLine, HelloDelta>>
    /\ editor = SentBuffer(1) \o <<"He", "llo", "He", "llo">>

\* C30: when a call has ended, the buffer is the one at dispatch followed
\* by the deltas received, and then by the closing marker exactly when the
\* call ended in Done, in the chat variant, with a delta that is not empty;
\* nothing else is appended.
C30_ClosingMarkerOnce ==
    \A c \in CallIds :
        calls[c].pc \in Terminal =>
            LET closes == /\ calls[c].pc = "done"
                          /\ Trim(calls[c].st.tokenizerUrl) = <<>>
                          /\ DeltasOf(c) # <<>>
            IN  editor = SentBuffer(c) \o DeltasOf(c)
                             \o (IF closes THEN <<NL>> \o IM_END \o <<NL, NL>> ELSE <<>>)

\* a chat call that received one delta ended in Done with the closing marker
C30_Witness ==
    /\ calls[1].pc = "done"
    /\ Trim(calls[1].st.tokenizerUrl) = <<>>
    /\ calls[1].wire = <<HelloDelta>>
    /\ editor = SentBuffer(1) \o <<"He", "llo", NL, IM1, IM2, NL, NL>>

\* C31: whenever the editor is mounted and every state update has been
\* rendered, with its effects run, state.prompt is the editor's buffer.
C31_BufferAndPromptAgree ==
    (Settled /\ editorRef = "editor") => state.prompt = editor

\* C32: after a chat call has ended in Done with deltas that are not all
\* white space (read in the claim's favour) and nobody else has written
\* the buffer, parseMessages(buffer) is the list of messages that was sent
\* followed by one assistant message whose content is the trimmed
\* concatenation of the deltas.
C32_BufferReadyForNextTurn ==
    \A i \in 1..Len(requests) :
        LET c == requests[i].call
        IN  (/\ calls[c].pc = "done"
             /\ "messages" \in DOMAIN requests[i].body
             /\ ~calls[c].foreign
             /\ Trim(DeltasOf(c)) # <<>>)
            => parseMessages(editor) =
                   Append(requests[i].body.messages,
                          [role |-> "assistant", content |-> Trim(DeltasOf(c))])

\* a credential as the Authorization header uses it: nothing when it is not set
KeyOf(v) == IF Falsy(v) THEN "" ELSE v

\* C33: the credential of the api_key entry changes only when an edit of
\* the API key field is rendered: the page load itself, whatever the
\* llm_client_state entry and the page address hold, leaves it as it was.
C33_CredentialSurvivesReload ==
    [][KeyOf(localStorage'.api_key) # KeyOf(localStorage.api_key) =>
          /\ life.committed
          /\ KeyOf(state.meta.apiKey) # KeyOf(snap.meta.apiKey)]_vars

\* the buffer ends with the closing marker and its blank line
EndsWithClosing(buf) ==
    /\ Len(buf) >= 5
    /\ SubSeq(buf, Len(buf) - 4, Len(buf)) = <<NL>> \o IM_END \o <<NL, NL>>

\* C34: for every request, the content taken from the chunks of its call
\* is the content of the variant the request was sent to, and when the call
\* has ended in Done the buffer ends with the closing marker exactly when
\* that variant is chat and content was received, whatever the user has
\* set the tokenizer URL to meanwhile.
C34_VariantFixedAtDispatch ==
    \A i \in 1..Len(requests) :
        LET c == requests[i].call
            completion == requests[i].endpoint[2] = "/completions"
        IN  /\ calls[c].pc \in {"reading", "done"} =>
                   calls[c].assistantResponse = WireContent(calls[c].wire, completion)
            /\ calls[c].pc = "done" =>
                   (EndsWithClosing(editor) <=>
                        (~completion /\ calls[c].assistantResponse # <<>>))

\* a chat call during which the tokenizer URL was set and rendered has read
\* a completion record and a chat record and has taken the chat one
C34_Witness ==
    /\ calls[1].pc = "done"
    /\ requests[1].endpoint[2] = "/chat/completions"
    /\ snap.tokenizerUrl = <<"https://tok">>
    /\ calls[1].wire = <<HelloText, HelloDelta>>
    /\ calls[1].assistantResponse = <<"He", "llo">>
    /\ EndsWithClosing(editor)

\* C35: the step that takes the lifecycle from pending to pulled leaves
\* meta.apiKey and meta.isLoading as they were, whatever the payload of the
\* URL holds.
C35_PullKeepsTransient ==
    [][(state.meta.initialization = "pending" /\ state'.meta.initialization = "pulled") =>
          /\ state'.meta.apiKey = state.meta.apiKey
          /\ state'.meta.isLoading = state.meta.isLoading]_vars

\* a payload with a meta record that names another key and sets the loading
\* flag has been pulled over a stored key
C35_Witness ==
    /\ location = EncodeState(JsonStringify(PartialRecord))
    /\ life.pulls = 1
    /\ state.params = PartialRecord.params
    /\ state.meta = [isLoading |-> FALSE, initialization |-> "pulled", apiKey |-> "sk-key"]

====
